---- MODULE Spec2Model ----
(***************************************************************************)
(* Model of the Document VQA Dataset Reviewer (src/app.py).                *)
(*                                                                         *)
(* A Python str is a sequence of characters.  S(x) is the str whose run of *)
(* ordinary letters is abbreviated by the single symbol x; the characters  *)
(* that JSON treats specially (quote, backslash, newline, space) are       *)
(* symbols of their own.  A Python dict is a function from str keys to     *)
(* values, a Python list is a sequence.                                    *)
(*                                                                         *)
(* Streamlit runs main() from top to bottom on every interaction of the    *)
(* reviewer; each action below is one interaction together with the run it *)
(* triggers.  Every run reads the uploaded file from its first byte.  What *)
(* survives from one run to the next is the state of the widgets only: the *)
(* uploaded files, the selected index, the number of new pairs and the     *)
(* texts of the boxes.                                                     *)
(*                                                                         *)
(* Spec is the page (main).  EditorSpec is display_conversations alone,    *)
(* applied to every turn list within the bounds.                           *)
(***************************************************************************)
EXTENDS Integers, Sequences, FiniteSets, TLC

VARIABLES
    jsonl_file,            \* bytes of the uploaded dataset file, or NoFile
    uploaded_images,       \* TRUE iff at least one image is uploaded
    selected_index,        \* value of the "Select Item Index" widget
    num_new,               \* value of the "Number of new Q&A pairs" widget
    typed,                 \* text boxes the reviewer has typed in: key -> text
    loaded,                \* main: data as returned by load_jsonl_data
    data,                  \* main: data when the page has been rendered
    conversations,         \* argument of display_conversations
    qa_pairs,              \* display_conversations: the Q/A pairs it built
    edited_conversations,  \* result of display_conversations
    json_str,              \* single-item download offered, or NoDownload
    all_json_str,          \* full-dataset download offered, or NoDownload
    view                   \* what the last run of the script rendered

vars == <<jsonl_file, uploaded_images, selected_index, num_new, typed, loaded,
          data, conversations, qa_pairs, edited_conversations, json_str, all_json_str, view>>

-----------------------------------------------------------------------------
(* Bounds of the model *)

MaxTurns == 3     \* longest turn list handed to display_conversations
MaxNumNew == 2    \* most new-pair slots the reviewer asks for
MaxTyped == 2     \* most text boxes holding typed text in one editor run
MaxLines == 2     \* most lines of an uploaded dataset file
MaxPageTyped == 1 \* most text boxes holding typed text on the page

(* Program constants *)

MinNewPairs == 1       \* number_input(min_value=1)
MaxNewPairs == 5       \* number_input(max_value=5)
DefaultNewPairs == 1   \* number_input(value=1)
DefaultIndex == 0      \* number_input(value=0)

-----------------------------------------------------------------------------
(* Python values *)

S(x) == <<x>>
EmptyStr == <<>>
EmptyDict == [k \in {} |-> <<>>]

Truthy(d) == DOMAIN d # {}
Get(d, k, default) == IF k \in DOMAIN d THEN d[k] ELSE default
Put(d, k, v) == [x \in DOMAIN d \cup {k} |-> IF x = k THEN v ELSE d[x]]

Turn(from, value) == [k \in {S("from"), S("value")} |-> IF k = S("from") THEN from ELSE value]

-----------------------------------------------------------------------------
(* display_conversations: conversion into Q/A pairs *)

\* variant: any turn that is not human answers the pending question
PairStep_AnyAnswers(st, conv) ==
    IF conv[S("from")] = S("human")
    THEN [qa_pairs |-> IF Truthy(st.current_pair)
                       THEN Append(st.qa_pairs, st.current_pair)
                       ELSE st.qa_pairs,
          current_pair |-> Put(EmptyDict, S("question"), conv[S("value")])]
    ELSE IF S("question") \in DOMAIN st.current_pair
    THEN [qa_pairs |-> Append(st.qa_pairs,
                              Put(st.current_pair, S("answer"), conv[S("value")])),
          current_pair |-> EmptyDict]
    ELSE st

\* variant: a gpt turn without pending question opens a pair of its own
PairStep_OrphanPair(st, conv) ==
    IF conv[S("from")] = S("human")
    THEN [qa_pairs |-> IF Truthy(st.current_pair)
                       THEN Append(st.qa_pairs, st.current_pair)
                       ELSE st.qa_pairs,
          current_pair |-> Put(EmptyDict, S("question"), conv[S("value")])]
    ELSE IF conv[S("from")] = S("gpt")
    THEN [qa_pairs |-> Append(st.qa_pairs,
                              Put(st.current_pair, S("answer"), conv[S("value")])),
          current_pair |-> EmptyDict]
    ELSE st

PairStep(st, conv) ==
    IF conv[S("from")] = S("human")
    THEN [qa_pairs |-> IF Truthy(st.current_pair)
                       THEN Append(st.qa_pairs, st.current_pair)
                       ELSE st.qa_pairs,
          current_pair |-> Put(EmptyDict, S("question"), conv[S("value")])]
    ELSE IF conv[S("from")] = S("gpt") /\ S("question") \in DOMAIN st.current_pair
    THEN [qa_pairs |-> Append(st.qa_pairs,
                              Put(st.current_pair, S("answer"), conv[S("value")])),
          current_pair |-> EmptyDict]
    ELSE st

RECURSIVE PairScan(_, _)
PairScan(st, convs) ==
    IF Len(convs) = 0 THEN st
    ELSE PairScan(PairStep(st, Head(convs)), Tail(convs))

qa_pairs_of(convs) ==
    LET st == PairScan([qa_pairs |-> <<>>, current_pair |-> EmptyDict], convs)
    IN  IF Truthy(st.current_pair)
        THEN Append(st.qa_pairs, st.current_pair)
        ELSE st.qa_pairs

-----------------------------------------------------------------------------
(* display_conversations: the editable fields *)

\* st.text_input: the text the reviewer typed in the box, else its default
text_input(key, value, boxes) == IF key \in DOMAIN boxes THEN boxes[key] ELSE value

\* variant: the answer entry is written before the question entry
RECURSIVE ExistingFields_AnswerFirst(_, _, _)
ExistingFields_AnswerFirst(pairs, i, boxes) ==
    IF i > Len(pairs) THEN <<>>
    ELSE LET pair == pairs[i]
             q_value == text_input(<<"q", i>>, Get(pair, S("question"), EmptyStr), boxes)
             a_value == text_input(<<"a", i>>, Get(pair, S("answer"), EmptyStr), boxes)
         IN  <<Turn(S("gpt"), a_value), Turn(S("human"), q_value)>>
             \o ExistingFields_AnswerFirst(pairs, i + 1, boxes)

\* variant: no answer entry is written for an empty answer box
RECURSIVE ExistingFields_SkipEmptyAnswer(_, _, _)
ExistingFields_SkipEmptyAnswer(pairs, i, boxes) ==
    IF i > Len(pairs) THEN <<>>
    ELSE LET pair == pairs[i]
             q_value == text_input(<<"q", i>>, Get(pair, S("question"), EmptyStr), boxes)
             a_value == text_input(<<"a", i>>, Get(pair, S("answer"), EmptyStr), boxes)
         IN  (IF a_value = EmptyStr THEN <<Turn(S("human"), q_value)>>
              ELSE <<Turn(S("human"), q_value), Turn(S("gpt"), a_value)>>)
             \o ExistingFields_SkipEmptyAnswer(pairs, i + 1, boxes)

RECURSIVE ExistingFields(_, _, _)
ExistingFields(pairs, i, boxes) ==
    IF i > Len(pairs) THEN <<>>
    ELSE LET pair == pairs[i]
             q_value == text_input(<<"q", i>>, Get(pair, S("question"), EmptyStr), boxes)
             a_value == text_input(<<"a", i>>, Get(pair, S("answer"), EmptyStr), boxes)
         IN  <<Turn(S("human"), q_value), Turn(S("gpt"), a_value)>>
             \o ExistingFields(pairs, i + 1, boxes)

\* variant: a new pair is kept only when question and answer are both filled
RECURSIVE NewFields_BothRequired(_, _, _)
NewFields_BothRequired(i, n, boxes) ==
    IF i >= n THEN <<>>
    ELSE LET q_value == text_input(<<"new_q", i>>, EmptyStr, boxes)
             a_value == text_input(<<"new_a", i>>, EmptyStr, boxes)
         IN  (IF q_value # EmptyStr /\ a_value # EmptyStr
              THEN <<Turn(S("human"), q_value), Turn(S("gpt"), a_value)>>
              ELSE <<>>)
             \o NewFields_BothRequired(i + 1, n, boxes)

\* variant: every new-pair slot is written, filled or not
RECURSIVE NewFields_AlwaysAppend(_, _, _)
NewFields_AlwaysAppend(i, n, boxes) ==
    IF i >= n THEN <<>>
    ELSE LET q_value == text_input(<<"new_q", i>>, EmptyStr, boxes)
             a_value == text_input(<<"new_a", i>>, EmptyStr, boxes)
         IN  <<Turn(S("human"), q_value), Turn(S("gpt"), a_value)>>
             \o NewFields_AlwaysAppend(i + 1, n, boxes)

RECURSIVE NewFields(_, _, _)
NewFields(i, n, boxes) ==
    IF i >= n THEN <<>>
    ELSE LET q_value == text_input(<<"new_q", i>>, EmptyStr, boxes)
             a_value == text_input(<<"new_a", i>>, EmptyStr, boxes)
         IN  (IF q_value # EmptyStr \/ a_value # EmptyStr
              THEN <<Turn(S("human"), q_value), Turn(S("gpt"), a_value)>>
              ELSE <<>>)
             \o NewFields(i + 1, n, boxes)

display_conversations(convs, n, boxes) ==
    ExistingFields(qa_pairs_of(convs), 1, boxes) \o NewFields(0, n, boxes)

\* the keys of the text boxes display_conversations renders for these pairs
BoxKeys(pairs, n) ==
    {<<w, i>> : w \in {"q", "a"}, i \in 1..Len(pairs)}
    \cup {<<w, i>> : w \in {"new_q", "new_a"}, i \in 0..(n - 1)}

\* the value= argument of the text box with the given key
BoxDefault(pairs, key) ==
    IF key[1] = "q" THEN Get(pairs[key[2]], S("question"), EmptyStr)
    ELSE IF key[1] = "a" THEN Get(pairs[key[2]], S("answer"), EmptyStr)
    ELSE EmptyStr

NoBoxes == [k \in {} |-> EmptyStr]

\* the reviewer sets the text of one box; a box showing its default again
\* holds no typed text
TypeInBox(boxes, pairs, key, text) ==
    IF text = BoxDefault(pairs, key)
    THEN [k \in DOMAIN boxes \ {key} |-> boxes[k]]
    ELSE Put(boxes, key, text)

\* Streamlit keeps the text of a box across runs while the box is rendered
\* again with the same key and the same value= argument
KeepBoxes(boxes, oldPairs, newPairs, n) ==
    [k \in {x \in DOMAIN boxes \cap BoxKeys(newPairs, n) :
                x \in BoxKeys(oldPairs, n)
                /\ BoxDefault(newPairs, x) = BoxDefault(oldPairs, x)} |-> boxes[k]]

RECURSIVE SubsetsUpTo(_, _)
SubsetsUpTo(keys, k) ==
    IF k = 0 THEN {{}}
    ELSE LET smaller == SubsetsUpTo(keys, k - 1)
         IN  smaller \cup {D \cup {x} : D \in smaller, x \in keys}

NewPairCounts == MinNewPairs..(IF MaxNumNew < MaxNewPairs THEN MaxNumNew ELSE MaxNewPairs)

-----------------------------------------------------------------------------
(* Characters and bytes *)

Quote == "QUOTE"
Backslash == "BACKSLASH"
Newline == "LF"
Space == "SP"
Eacute == "E-ACUTE"            \* a character outside ASCII; UTF-8 bytes C3 A9
Whitespace == {Space, Newline, "CR", "TAB"}

RECURSIVE Concat(_)
Concat(parts) ==
    IF Len(parts) = 0 THEN <<>>
    ELSE IF Len(parts) = 1 THEN parts[1]
    ELSE LET half == Len(parts) \div 2
         IN  Concat(SubSeq(parts, 1, half)) \o Concat(SubSeq(parts, half + 1, Len(parts)))

RECURSIVE Join(_, _)
Join(parts, sep) ==
    IF Len(parts) = 0 THEN <<>>
    ELSE IF Len(parts) = 1 THEN parts[1]
    ELSE parts[1] \o sep \o Join(Tail(parts), sep)

\* str.encode("utf-8"), as the download button does for a str
Encode(str) ==
    Concat([i \in 1..Len(str) |-> IF str[i] = Eacute THEN <<"C3", "A9">> ELSE <<str[i]>>])

\* bytes.decode("utf-8"): ok is FALSE for UnicodeDecodeError.  C3 leads a
\* two-byte character, A9 continues one, FF is no UTF-8 byte at all.
Decode(bytes) ==
    LET wellFormed ==
            \A i \in 1..Len(bytes) :
                /\ bytes[i] # "FF"
                /\ bytes[i] = "C3" => (i < Len(bytes) /\ bytes[i + 1] = "A9")
                /\ bytes[i] = "A9" => (i > 1 /\ bytes[i - 1] = "C3")
        leading == SelectSeq(bytes, LAMBDA x : x # "A9")
    IN  IF wellFormed
        THEN [ok |-> TRUE,
              val |-> [i \in 1..Len(leading) |->
                          IF leading[i] = "C3" THEN Eacute ELSE leading[i]]]
        ELSE [ok |-> FALSE, val |-> <<>>]

\* str.strip()
RECURSIVE LStrip(_)
LStrip(str) ==
    IF Len(str) > 0 /\ Head(str) \in Whitespace THEN LStrip(Tail(str)) ELSE str
RECURSIVE RStrip(_)
RStrip(str) ==
    IF Len(str) > 0 /\ str[Len(str)] \in Whitespace
    THEN RStrip(SubSeq(str, 1, Len(str) - 1)) ELSE str
Strip(str) == RStrip(LStrip(str))

\* iterating a binary file: the lines, each with its terminating newline; the
\* last line ends at the end of the file
FileLines(bytes) ==
    LET ends == {i \in 1..Len(bytes) : bytes[i] = Newline \/ i = Len(bytes)}
        endOf(k) == CHOOSE e \in ends : Cardinality({x \in ends : x <= e}) = k
    IN  [k \in 1..Cardinality(ends) |->
            SubSeq(bytes, IF k = 1 THEN 1 ELSE endOf(k - 1) + 1, endOf(k))]

-----------------------------------------------------------------------------
(* json.dumps(..., ensure_ascii=False) on the values of a dataset: str, list
   of turns, dict.  Keys are written in the order of KeyOrder; the model's
   dict does not record insertion order. *)

IndentWidth == 2

KeyOrder == <<S("id"), S("image"), S("caption"), S("conversations"), S("from"), S("value")>>

EscapeChar(c) ==
    IF c = Quote THEN <<Backslash, Quote>>
    ELSE IF c = Backslash THEN <<Backslash, Backslash>>
    ELSE IF c = Newline THEN <<Backslash, "n">>
    ELSE <<c>>

DumpsStr(str) ==
    <<Quote>> \o Concat([i \in 1..Len(str) |-> EscapeChar(str[i])]) \o <<Quote>>

RECURSIVE Spaces(_)
Spaces(n) == IF n <= 0 THEN <<>> ELSE <<Space>> \o Spaces(n - 1)

\* what follows an opening bracket, separates two members, precedes the
\* closing bracket, at the given nesting level; indent is TRUE for indent=2
AfterOpen(indent, level) == IF indent THEN <<Newline>> \o Spaces(IndentWidth * level) ELSE <<>>
ItemSep(indent, level) ==
    IF indent THEN <<",", Newline>> \o Spaces(IndentWidth * level) ELSE <<",", Space>>
BeforeClose(indent, level) ==
    IF indent THEN <<Newline>> \o Spaces(IndentWidth * (level - 1)) ELSE <<>>

Bracketed(open, members, close, indent, level) ==
    IF Len(members) = 0 THEN <<open, close>>
    ELSE <<open>> \o AfterOpen(indent, level) \o Join(members, ItemSep(indent, level))
         \o BeforeClose(indent, level) \o <<close>>

KeysOf(d) == SelectSeq(KeyOrder, LAMBDA k : k \in DOMAIN d)

\* a dict whose values are all str
DumpsStrDict(d, indent, level) ==
    LET keys == KeysOf(d)
    IN  Bracketed("{", [i \in 1..Len(keys) |->
                            DumpsStr(keys[i]) \o <<":", Space>> \o DumpsStr(d[keys[i]])],
                  "}", indent, level)

DumpsTurns(turns, indent, level) ==
    Bracketed("[", [i \in 1..Len(turns) |-> DumpsStrDict(turns[i], indent, level + 1)],
              "]", indent, level)

\* a dataset item: conversations is a list of turns, the other fields are str
DumpsItem(item, indent) ==
    LET keys == KeysOf(item)
    IN  Bracketed("{", [i \in 1..Len(keys) |->
                            DumpsStr(keys[i]) \o <<":", Space>> \o
                            (IF keys[i] = S("conversations")
                             THEN DumpsTurns(item[keys[i]], indent, 2)
                             ELSE DumpsStr(item[keys[i]]))],
                  "}", indent, 1)

-----------------------------------------------------------------------------
(* json.loads on objects, arrays and strings; ok is FALSE for JSONDecodeError *)

JsonError == [ok |-> FALSE, val |-> <<>>, next |-> 0]

RECURSIVE SkipWs(_, _)
SkipWs(str, i) ==
    IF i <= Len(str) /\ str[i] \in Whitespace THEN SkipWs(str, i + 1) ELSE i

\* the characters of a string after its opening quote
RECURSIVE ScanString(_, _, _)
ScanString(str, i, acc) ==
    IF i > Len(str) THEN JsonError
    ELSE IF str[i] = Quote THEN [ok |-> TRUE, val |-> acc, next |-> i + 1]
    ELSE IF str[i] = Backslash
    THEN IF i + 1 > Len(str) THEN JsonError
         ELSE IF str[i + 1] = Quote THEN ScanString(str, i + 2, Append(acc, Quote))
         ELSE IF str[i + 1] = Backslash THEN ScanString(str, i + 2, Append(acc, Backslash))
         ELSE IF str[i + 1] = "n" THEN ScanString(str, i + 2, Append(acc, Newline))
         ELSE JsonError
    ELSE IF str[i] \in {Newline, "CR", "TAB"} THEN JsonError
    ELSE ScanString(str, i + 1, Append(acc, str[i]))

RECURSIVE ParseValue(_, _)
RECURSIVE ParseElements(_, _, _)
RECURSIVE ParseMembers(_, _, _)

\* the elements of an array after its opening bracket or a comma
ParseElements(str, i, acc) ==
    LET elem == ParseValue(str, i)
        j == SkipWs(str, elem.next)
    IN  IF ~elem.ok \/ j > Len(str) THEN JsonError
        ELSE IF str[j] = "," THEN ParseElements(str, j + 1, Append(acc, elem.val))
        ELSE IF str[j] = "]" THEN [ok |-> TRUE, val |-> Append(acc, elem.val), next |-> j + 1]
        ELSE JsonError

\* the members of an object after its opening brace or a comma
ParseMembers(str, i, acc) ==
    LET k == SkipWs(str, i)
        key == IF k <= Len(str) /\ str[k] = Quote THEN ScanString(str, k + 1, <<>>)
               ELSE JsonError
        c == SkipWs(str, key.next)
        member == IF key.ok /\ c <= Len(str) /\ str[c] = ":" THEN ParseValue(str, c + 1)
                  ELSE JsonError
        j == SkipWs(str, member.next)
    IN  IF ~member.ok \/ j > Len(str) THEN JsonError
        ELSE IF str[j] = ","
        THEN ParseMembers(str, j + 1, Put(acc, key.val, member.val))
        ELSE IF str[j] = "}"
        THEN [ok |-> TRUE, val |-> Put(acc, key.val, member.val), next |-> j + 1]
        ELSE JsonError

ParseValue(str, i) ==
    LET j == SkipWs(str, i)
    IN  IF j > Len(str) THEN JsonError
        ELSE IF str[j] = Quote THEN ScanString(str, j + 1, <<>>)
        ELSE IF str[j] = "["
        THEN LET e == SkipWs(str, j + 1)
             IN  IF e <= Len(str) /\ str[e] = "]"
                 THEN [ok |-> TRUE, val |-> <<>>, next |-> e + 1]
                 ELSE ParseElements(str, j + 1, <<>>)
        ELSE IF str[j] = "{"
        THEN LET e == SkipWs(str, j + 1)
             IN  IF e <= Len(str) /\ str[e] = "}"
                 THEN [ok |-> TRUE, val |-> EmptyDict, next |-> e + 1]
                 ELSE ParseMembers(str, j + 1, EmptyDict)
        ELSE JsonError

JsonLoads(str) ==
    LET v == ParseValue(str, 1)
    IN  IF v.ok /\ SkipWs(str, v.next) > Len(str) THEN v ELSE JsonError

-----------------------------------------------------------------------------
(* load_jsonl_data *)

\* variant: a line that fails to decode or parse is skipped
RECURSIVE LoadLines_BestEffort(_, _)
LoadLines_BestEffort(lines, acc) ==
    IF Len(lines) = 0 THEN [none |-> FALSE, data |-> acc]
    ELSE LET decoded == Decode(Head(lines))
             line == Strip(decoded.val)
             item == JsonLoads(line)
         IN  IF ~decoded.ok THEN LoadLines_BestEffort(Tail(lines), acc)
             ELSE IF Len(line) = 0 THEN LoadLines_BestEffort(Tail(lines), acc)
             ELSE IF ~item.ok THEN LoadLines_BestEffort(Tail(lines), acc)
             ELSE LoadLines_BestEffort(Tail(lines), Append(acc, item.val))

\* none is TRUE when the function returns None
RECURSIVE LoadLines(_, _)
LoadLines(lines, acc) ==
    IF Len(lines) = 0 THEN [none |-> FALSE, data |-> acc]
    ELSE LET decoded == Decode(Head(lines))
             line == Strip(decoded.val)
             item == JsonLoads(line)
         IN  IF ~decoded.ok THEN [none |-> TRUE, data |-> <<>>]
             ELSE IF Len(line) = 0 THEN LoadLines(Tail(lines), acc)
             ELSE IF ~item.ok THEN [none |-> TRUE, data |-> <<>>]
             ELSE LoadLines(Tail(lines), Append(acc, item.val))

load_jsonl_data(uploaded_file) == LoadLines(FileLines(uploaded_file), <<>>)

-----------------------------------------------------------------------------
(* Inputs *)

TurnTexts == {EmptyStr, S("a")}
TypedTexts == {EmptyStr, S("b")}

\* the value of a turn that is neither human nor gpt is never read
Turns == {Turn(f, v) : f \in {S("human"), S("gpt")}, v \in TurnTexts}
         \cup {Turn(S("system"), S("a"))}
TurnLists == UNION {[1..k -> Turns] : k \in 0..MaxTurns}

\* the states of the text boxes: typed text, differing from the default, in at
\* most MaxTyped of the boxes
BoxStates(pairs, n) ==
    UNION {{boxes \in [D -> TypedTexts] :
                \A key \in D : boxes[key] # BoxDefault(pairs, key)} :
            D \in SubsetsUpTo(BoxKeys(pairs, n), MaxTyped)}

NoFile == <<"None">>
NoDownload == <<"None">>

-----------------------------------------------------------------------------
(* The editor alone: display_conversations on every bounded turn list *)

EditorFrame == UNCHANGED <<jsonl_file, uploaded_images, selected_index, loaded,
                           data, json_str, all_json_str>>

EditorInit ==
    /\ conversations \in TurnLists
    /\ num_new = DefaultNewPairs
    /\ typed = NoBoxes
    /\ qa_pairs = <<>>
    /\ edited_conversations = <<>>
    /\ view = "input"
    /\ jsonl_file = NoFile
    /\ uploaded_images = FALSE
    /\ selected_index = DefaultIndex
    /\ loaded = <<>>
    /\ data = <<>>
    /\ json_str = NoDownload
    /\ all_json_str = NoDownload

\* one run of display_conversations with the widgets in the given state
EditorRun(n, boxes) ==
    /\ num_new' = n
    /\ typed' = boxes
    /\ qa_pairs' = qa_pairs_of(conversations)
    /\ edited_conversations' = display_conversations(conversations, n, boxes)
    /\ view' = "editor"
    /\ UNCHANGED conversations
    /\ EditorFrame

\* the reviewer's input: a number of new-pair slots and typed text in at most
\* MaxTyped of the boxes rendered
EditorApply ==
    /\ view = "input"
    /\ \E n \in NewPairCounts :
          \E boxes \in BoxStates(qa_pairs_of(conversations), n) :
              EditorRun(n, boxes)

EditorNext == EditorApply

EditorSpec == EditorInit /\ [][EditorNext]_vars

-----------------------------------------------------------------------------
(* main: the script Streamlit runs from top to bottom on every interaction *)

Item(keys, id, image, caption, convs) ==
    [k \in keys |->
        IF k = S("id") THEN id
        ELSE IF k = S("image") THEN image
        ELSE IF k = S("caption") THEN caption
        ELSE convs]

\* variant: the edited turn list is written into every item
Merge_AllItems(items, index, edited) ==
    [i \in 1..Len(items) |-> Put(items[i], S("conversations"), edited)]

\* current_item["conversations"] = edited_conversations, data being a list of
\* dicts of which current_item is the one at selected_index
Merge(items, index, edited) ==
    [items EXCEPT ![index + 1] = Put(@, S("conversations"), edited)]

\* variant: the items are written with indent=2, as the single item is
DumpsAll_Indented(items) ==
    Join([i \in 1..Len(items) |-> DumpsItem(items[i], TRUE)], <<Newline>>)

\* "\n".join(json.dumps(item, ensure_ascii=False) for item in data)
DumpsAll(items) ==
    Join([i \in 1..Len(items) |-> DumpsItem(items[i], FALSE)], <<Newline>>)

\* what main() leaves when it renders no page
NoPage(shown) ==
    [view |-> shown, loaded |-> <<>>, data |-> <<>>, conversations |-> <<>>,
     qa_pairs |-> <<>>, edited_conversations |-> <<>>,
     json_str |-> NoDownload, all_json_str |-> NoDownload]

\* main() from "Current item" on, data being the list load_jsonl_data returned
Page(items, index, n, boxes) ==
    LET current_item == items[index + 1]
        convs == Get(current_item, S("conversations"), <<>>)
        edited == display_conversations(convs, n, boxes)
        merged == Merge(items, index, edited)
    IN  [view |-> "page",
         loaded |-> items,
         data |-> merged,
         conversations |-> convs,
         qa_pairs |-> qa_pairs_of(convs),
         edited_conversations |-> edited,
         json_str |-> DumpsItem(merged[index + 1], TRUE),
         all_json_str |-> DumpsAll(merged)]

\* the outcome of one run of main() with the widgets in the given state
main(file, images, index, n, boxes) ==
    LET result == load_jsonl_data(file)
    IN  IF file = NoFile \/ ~images THEN NoPage("info")
        ELSE IF result.none THEN NoPage("error")
        ELSE IF Len(result.data) = 0 THEN NoPage("empty")
        ELSE Page(result.data, index, n, boxes)

\* Streamlit runs the script; widgets that are not rendered lose their state
Run(file, images, index, n, boxes) ==
    \E out \in {main(file, images, index, n, boxes)} :
    LET shown == out.view = "page"
    IN  /\ jsonl_file' = file
        /\ uploaded_images' = images
        /\ selected_index' = IF shown THEN index ELSE DefaultIndex
        /\ num_new' = IF shown THEN n ELSE DefaultNewPairs
        /\ typed' = IF shown THEN boxes ELSE NoBoxes
        /\ view' = out.view
        /\ loaded' = out.loaded
        /\ data' = out.data
        /\ conversations' = out.conversations
        /\ qa_pairs' = out.qa_pairs
        /\ edited_conversations' = out.edited_conversations
        /\ json_str' = out.json_str
        /\ all_json_str' = out.all_json_str

\* the dataset items the uploaded files are made of: one with characters that
\* JSON escapes and a gpt turn that answers no question, one without caption
\* and conversations
SampleItems ==
    << Item({S("id"), S("caption"), S("conversations")},
            S("7"), <<>>, <<Eacute, Newline, Backslash, "n">>,
            <<Turn(S("gpt"), S("x")), Turn(S("human"), <<"q", Quote>>),
              Turn(S("gpt"), S("a"))>>),
       Item({S("image")}, <<>>, S("c.png"), <<>>, <<>>) >>

\* the lines of an uploaded file: a dataset item, blank, cut short, not UTF-8
FileLineKinds ==
    {Encode(DumpsItem(SampleItems[i], FALSE)) : i \in 1..Len(SampleItems)}
    \cup { <<Space>>,
           <<"{", Quote, "id", Quote, ":", Space>>,
           <<"{", Quote, "id", Quote, ":", Space, Quote, "FF", Quote, "}">> }

Files == {Join(lines, <<Newline>>) :
            lines \in UNION {[1..k -> FileLineKinds] : k \in 0..MaxLines}}

\* what the reviewer types into a box of the page
PageTexts == {<<Backslash, "n", Quote>>}

Init ==
    /\ jsonl_file = NoFile
    /\ uploaded_images = FALSE
    /\ selected_index = DefaultIndex
    /\ num_new = DefaultNewPairs
    /\ typed = NoBoxes
    /\ view = "info"
    /\ loaded = <<>>
    /\ data = <<>>
    /\ conversations = <<>>
    /\ qa_pairs = <<>>
    /\ edited_conversations = <<>>
    /\ json_str = NoDownload
    /\ all_json_str = NoDownload

\* the reviewer uploads the dataset file; one file per session
UploadDataset ==
    /\ jsonl_file = NoFile
    /\ \E file \in Files : Run(file, uploaded_images, selected_index, num_new, typed)

UploadImages ==
    /\ ~uploaded_images
    /\ Run(jsonl_file, TRUE, selected_index, num_new, typed)

\* the reviewer changes "Select Item Index"
SelectItem ==
    /\ view = "page"
    /\ \E index \in 0..(Len(loaded) - 1) :
          /\ index # selected_index
          /\ LET pairs == qa_pairs_of(Get(loaded[index + 1], S("conversations"), <<>>))
             IN  Run(jsonl_file, uploaded_images, index, num_new,
                     KeepBoxes(typed, qa_pairs, pairs, num_new))

\* the reviewer changes the text of one box
TypeText ==
    /\ view = "page"
    /\ \E key \in BoxKeys(qa_pairs, num_new), text \in PageTexts :
          LET boxes == TypeInBox(typed, qa_pairs, key, text)
          IN  /\ boxes # typed
              /\ Cardinality(DOMAIN boxes) <= MaxPageTyped
              /\ Run(jsonl_file, uploaded_images, selected_index, num_new, boxes)

\* the reviewer changes "Number of new Q&A pairs to add"
SetNumNew ==
    /\ view = "page"
    /\ \E n \in NewPairCounts :
          /\ n # num_new
          /\ Run(jsonl_file, uploaded_images, selected_index, n,
                 KeepBoxes(typed, qa_pairs, qa_pairs, n))

Next == UploadDataset \/ UploadImages \/ SelectItem \/ TypeText \/ SetNumNew

Spec == Init /\ [][Next]_vars

-----------------------------------------------------------------------------
(* Vocabulary of the properties *)

From(t) == t[S("from")]
Value(t) == t[S("value")]
IsHuman(t) == From(t) = S("human")
IsGpt(t) == From(t) = S("gpt")

Rendered == view \in {"editor", "page"}

\* positions of the human turns of c
HumanAt(c) == {i \in 1..Len(c) : IsHuman(c[i])}
\* the ordinal of the human turn at position h among the human turns
Ordinal(c, h) == Cardinality({i \in HumanAt(c) : i <= h})
\* the gpt turns that answer the human turn at h: after h, no human turn between
AnswersOf(c, h) ==
    {g \in (h + 1)..Len(c) :
        IsGpt(c[g]) /\ \A m \in (h + 1)..(g - 1) : ~IsHuman(c[m])}
FirstOf(idx) == CHOOSE g \in idx : \A x \in idx : g <= x
\* a gpt turn at i finds a pending question iff the nearest human-or-gpt
\* turn before it is a human turn
Pending(c, i) ==
    \E j \in 1..(i - 1) :
        IsHuman(c[j]) /\ \A m \in (j + 1)..(i - 1) : ~IsHuman(c[m]) /\ ~IsGpt(c[m])
Remove(c, i) == SubSeq(c, 1, i - 1) \o SubSeq(c, i + 1, Len(c))

HasAnswer(pair) == S("answer") \in DOMAIN pair

\* even length, human and gpt strictly alternating, human first
Alternating(c) ==
    /\ Len(c) % 2 = 0
    /\ \A i \in 1..Len(c) : IF i % 2 = 1 THEN IsHuman(c[i]) ELSE IsGpt(c[i])

\* the text a box shows: what was typed in it, else its default
BoxText(key, default) == IF key \in DOMAIN typed THEN typed[key] ELSE default
\* the new-pair slots with a non-empty question or answer, in slot order
Filled(i) ==
    BoxText(<<"new_q", i>>, EmptyStr) # EmptyStr \/ BoxText(<<"new_a", i>>, EmptyStr) # EmptyStr
FilledSlots == {i \in 0..(num_new - 1) : Filled(i)}
SlotRank(i) == Cardinality({j \in FilledSlots : j <= i})

\* no box holds text that differs from its default and no new-pair slot is filled
Untouched ==
    /\ FilledSlots = {}
    /\ \A key \in DOMAIN typed : typed[key] = BoxDefault(qa_pairs, key)

-----------------------------------------------------------------------------
(* Properties of the editor *)

\* C1 (as stated): viewing any record without changing a field and without
\* filling a new-pair slot leaves its turn list equal to the original one.
C1_AsStated == (Rendered /\ Untouched) => edited_conversations = conversations

\* C1 (amended): an untouched view leaves the turn list equal to the original
\* exactly when the original strictly alternates human, gpt, human first, with
\* even length; every other turn list is rewritten.
C1_RoundTrip ==
    (Rendered /\ Untouched) =>
        (edited_conversations = conversations <=> Alternating(conversations))

C1_Witness ==
    /\ Rendered /\ Untouched
    /\ Len(conversations) >= 2
    /\ Alternating(conversations)
    /\ edited_conversations = conversations

\* C2: one pair per human turn, the k-th pair asking the k-th human turn's
\* value; a gpt turn without a pending question adds nothing to the pairs; no
\* turns give no pairs.
C2_OnePairPerHuman ==
    Rendered =>
        /\ Len(qa_pairs) = Cardinality(HumanAt(conversations))
        /\ \A h \in HumanAt(conversations) :
              qa_pairs[Ordinal(conversations, h)][S("question")] = Value(conversations[h])
        /\ \A i \in 1..Len(conversations) :
              (IsGpt(conversations[i]) /\ ~Pending(conversations, i)) =>
                  qa_pairs_of(Remove(conversations, i)) = qa_pairs
        /\ (Len(conversations) = 0 => Len(qa_pairs) = 0)

C2_Witness ==
    /\ Rendered
    /\ Len(conversations) = 3
    /\ IsGpt(conversations[1]) /\ Value(conversations[1]) = S("a")
    /\ IsHuman(conversations[2]) /\ Value(conversations[2]) = EmptyStr
    /\ IsHuman(conversations[3])
    /\ Len(qa_pairs) = 2

\* C3: the pair of a human turn has an answer iff a gpt turn follows it before
\* the next human turn, and the answer is the value of the first such gpt turn.
C3_AnswerIffGptFollows ==
    Rendered =>
        \A h \in HumanAt(conversations) :
            LET pair == qa_pairs[Ordinal(conversations, h)]
                idx == AnswersOf(conversations, h)
            IN  /\ HasAnswer(pair) <=> idx # {}
                /\ idx # {} => pair[S("answer")] = Value(conversations[FirstOf(idx)])

C3_Witness ==
    /\ Rendered
    /\ Len(conversations) = 3
    /\ IsHuman(conversations[1])
    /\ ~IsHuman(conversations[2]) /\ ~IsGpt(conversations[2])
    /\ IsGpt(conversations[3])
    /\ Len(qa_pairs) = 1 /\ HasAnswer(qa_pairs[1])

\* C4: the written turn list has 2*P + 2*M entries: a human and a gpt entry
\* per existing pair in pair order, then a human and a gpt entry per filled
\* new-pair slot in slot order; a slot with both texts empty adds nothing.
C4_FlattenedLength ==
    Rendered =>
        LET P == Len(qa_pairs)
            M == Cardinality(FilledSlots)
        IN  /\ Len(edited_conversations) = 2 * P + 2 * M
            /\ \A k \in 1..P :
                  /\ edited_conversations[2 * k - 1] =
                        Turn(S("human"), BoxText(<<"q", k>>,
                                                 Get(qa_pairs[k], S("question"), EmptyStr)))
                  /\ edited_conversations[2 * k] =
                        Turn(S("gpt"), BoxText(<<"a", k>>,
                                               Get(qa_pairs[k], S("answer"), EmptyStr)))
            /\ \A i \in FilledSlots :
                  /\ edited_conversations[2 * P + 2 * SlotRank(i) - 1] =
                        Turn(S("human"), BoxText(<<"new_q", i>>, EmptyStr))
                  /\ edited_conversations[2 * P + 2 * SlotRank(i)] =
                        Turn(S("gpt"), BoxText(<<"new_a", i>>, EmptyStr))

C4_Witness ==
    /\ Rendered
    /\ Len(qa_pairs) = 1
    /\ num_new = 2
    /\ FilledSlots = {1}
    /\ BoxText(<<"new_a", 1>>, EmptyStr) = EmptyStr
    /\ Len(edited_conversations) = 4

\* C9: an untouched pass is idempotent: passing its result through the editor
\* again, untouched, gives the same turn list.
C9_Idempotent ==
    (Rendered /\ Untouched) =>
        display_conversations(edited_conversations, DefaultNewPairs, NoBoxes)
            = edited_conversations

C9_Witness ==
    /\ Rendered /\ Untouched
    /\ edited_conversations # conversations
    /\ Len(edited_conversations) >= 2

\* C10: the written turn list has even length and alternates human, gpt,
\* human first, so it has no other from value; a question without answer is
\* followed by a gpt turn holding the text of its answer box.
C10_WrittenAlternates ==
    Rendered =>
        /\ Alternating(edited_conversations)
        /\ \A k \in 1..Len(qa_pairs) :
              ~HasAnswer(qa_pairs[k]) =>
                  edited_conversations[2 * k] = Turn(S("gpt"), BoxText(<<"a", k>>, EmptyStr))

C10_Witness ==
    /\ Rendered
    /\ ~Alternating(conversations)
    /\ Len(qa_pairs) = 2
    /\ ~HasAnswer(qa_pairs[1])
    /\ edited_conversations[2] = Turn(S("gpt"), EmptyStr)

-----------------------------------------------------------------------------
(* Properties of the page *)

ConversationsKey == S("conversations")
Selected == selected_index + 1

\* the dataset a reviewer gets by loading the downloaded full export
Reloaded(export) == load_jsonl_data(Encode(export))

\* a line of the file on which load_jsonl_data raises
FailingLine(line) ==
    \/ ~Decode(line).ok
    \/ /\ Len(Strip(Decode(line).val)) > 0
       /\ ~JsonLoads(Strip(Decode(line).val)).ok
BlankLine(line) == Decode(line).ok /\ Len(Strip(Decode(line).val)) = 0

\* the reviewer has changed the question or the answer of an existing pair
PairEdited == \E key \in DOMAIN typed : key[1] \in {"q", "a"}

\* C5: once record i is selected and its edited pairs are merged, selecting
\* another record leaves record i in the full export, one line per record,
\* with its edited turn list.
C5_EditsAccumulate ==
    [][(view = "page" /\ PairEdited /\ view' = "page"
        /\ selected_index' # selected_index) =>
          /\ ~Reloaded(all_json_str').none
          /\ Len(Reloaded(all_json_str').data) = Len(loaded)
          /\ ConversationsKey \in DOMAIN Reloaded(all_json_str').data[Selected]
          /\ Reloaded(all_json_str').data[Selected][ConversationsKey]
                = edited_conversations]_vars

\* C6: a rendered page differs from the loaded dataset only in the
\* conversations field of the selected record; the export has the records of
\* the load, in their order.
C6_OnlySelectedConversations ==
    view = "page" =>
        /\ Len(data) = Len(loaded)
        /\ \A i \in 1..Len(loaded) : i # Selected => data[i] = loaded[i]
        /\ DOMAIN data[Selected] = DOMAIN loaded[Selected] \cup {ConversationsKey}
        /\ \A k \in DOMAIN loaded[Selected] \ {ConversationsKey} :
              data[Selected][k] = loaded[Selected][k]
        /\ LET exported == Reloaded(all_json_str).data
           IN  /\ Len(exported) = Len(loaded)
               /\ \A i \in 1..Len(loaded) :
                     \A k \in DOMAIN loaded[i] \ {ConversationsKey} :
                         k \in DOMAIN exported[i] /\ exported[i][k] = loaded[i][k]

C6_Witness ==
    /\ view = "page"
    /\ Len(loaded) = 2
    /\ selected_index = 1
    /\ S("caption") \in DOMAIN loaded[1]
    /\ data[1] = loaded[1]
    /\ S("caption") \in DOMAIN loaded[2]
    /\ data[2][ConversationsKey] # loaded[2][ConversationsKey]

\* C7: a file with a line that fails to decode or parse yields no dataset, no
\* selection, no mutation and no download; blank lines are skipped, so a file
\* without failing line yields one record per non-blank line.
C7_FailFast ==
    (jsonl_file # NoFile /\ uploaded_images) =>
        LET lines == FileLines(jsonl_file)
        IN  IF \E k \in 1..Len(lines) : FailingLine(lines[k])
            THEN /\ view = "error"
                 /\ Len(loaded) = 0 /\ Len(data) = 0
                 /\ selected_index = DefaultIndex
                 /\ json_str = NoDownload /\ all_json_str = NoDownload
            ELSE /\ view \in {"page", "empty"}
                 /\ Len(loaded) = Cardinality({k \in 1..Len(lines) : ~BlankLine(lines[k])})

C7_Witness ==
    /\ jsonl_file # NoFile /\ uploaded_images
    /\ Len(FileLines(jsonl_file)) = 2
    /\ ~FailingLine(FileLines(jsonl_file)[1])
    /\ ~BlankLine(FileLines(jsonl_file)[1])
    /\ FailingLine(FileLines(jsonl_file)[2])
    /\ view = "error"
    /\ all_json_str = NoDownload

\* C8: the full export has one line per record of the dataset, and loading it
\* gives back the dataset: same records, same fields, same values, same order.
C8_ExportRoundTrip ==
    view = "page" =>
        /\ Len(FileLines(Encode(all_json_str))) = Len(data)
        /\ ~Reloaded(all_json_str).none
        /\ Reloaded(all_json_str).data = data

C8_Witness ==
    /\ view = "page"
    /\ Len(data) = 2
    /\ typed # NoBoxes
    /\ \E i \in 1..2 :
          /\ S("caption") \in DOMAIN data[i]
          /\ \E c \in 1..Len(data[i][S("caption")]) : data[i][S("caption")][c] = Newline
    /\ Reloaded(all_json_str).data = data

====
